---- MODULE Spec2Model ----
(***************************************************************************)
(* The DMA controller of libvfio-user: the region table, the translation   *)
(* of DMA spans into scatter-gather lists (dma_addr_to_sg), the map/unmap  *)
(* reference counting and the dirty-page marking of lib/dma.h.             *)
(*                                                                         *)
(* Widths are scaled: vfu_dma_addr_t, size_t and uint64_t are AddrBits     *)
(* wide (64 in the build) and uint32_t is LenBits wide (32 in the build).  *)
(* All arithmetic that the C code does in those types is taken modulo      *)
(* 2^AddrBits or 2^LenBits here.  The inline functions of dma.h are        *)
(* translated from the header; dma_controller_add_region,                  *)
(* dma_controller_remove_region, _dma_addr_sg_split and the logging        *)
(* start/stop, whose bodies live in dma.c, follow the written description  *)
(* of the operations.                                                      *)
(*                                                                         *)
(* An access outside an allocation (the slot behind the region table, a    *)
(* bit behind the bitmap) or a failed assert can end in anything; the      *)
(* model records it in ub and follows the run no further.                  *)
(***************************************************************************)
EXTENDS Integers, Sequences, FiniteSets, TLC

\* ----------------------------------------------------------------- bounds
AddrBits == 6
LenBits == 3
MaxRegions == 2
MaxSg == 2
MaxRef == 2
MaxUnder == 1
RegBits == 12

AddrMod == 2 ^ AddrBits
LenMod == 2 ^ LenBits
\* A uint32_t of the config space has RegBits bits.
RegMod == 2 ^ RegBits

\* -------------------------------------------------------------- constants
PROT_READ == 1
PROT_WRITE == 2
CHAR_BIT == 8
NULL == 0
EACCES == 13
EINVAL == 22
EFAULT == 14
PCI_STD_HEADER_SIZEOF == 64
PCI_COMMAND == 4
PCI_STATUS == 6
PCI_LATENCY_TIMER == 13
PCI_BASE_ADDRESS_0 == 16
PCI_ROM_ADDRESS == 48
PCI_INTERRUPT_LINE == 60
PCI_INTERRUPT_PIN == 61

PCI_COMMAND_IO == 1
PCI_COMMAND_MEMORY == 2
PCI_COMMAND_MASTER == 4
PCI_COMMAND_INVALIDATE == 16
PCI_COMMAND_VGA_PALETTE == 32
PCI_COMMAND_SERR == 256
PCI_COMMAND_INTX_DISABLE == 1024
PCI_ROM_ADDRESS_ENABLE == 1

EBUSY == 16
ENOENT == 2
ENOSPC == 28

\* ------------------------------------------------------------------ state
VARIABLES
    regions,        \* dma->regions[0 .. max_regions-1]
    nregions,       \* dma->nregions
    dirty_pgsize,   \* dma->dirty_pgsize (0: logging off)
    region_hint,    \* static __thread int region_hint of dma_addr_to_sg
    sg,             \* the SG list the device holds (filled by dma_addr_to_sg)
    sg_fresh,       \* no region was added or removed since sg was filled
    map_pre,        \* the refcounts just before the last successful dma_map_sg
    ub,             \* an out-of-bounds access or a failed assert happened
    written,        \* per slot: a snapshot was taken, and the pages that
                    \* write-intent translations covered since
    last,           \* the last call: operation, arguments, return value
    pci             \* the device's config space: its region callback and
                    \* capabilities, and the pci_config_space_access under way

dma_vars == <<regions, nregions, dirty_pgsize, region_hint, sg, sg_fresh,
              map_pre, ub, written, last>>

vars == <<regions, nregions, dirty_pgsize, region_hint, sg, sg_fresh,
          map_pre, ub, written, last, pci>>

Slots == 0 .. (MaxRegions - 1)

\* dma_memory_region_t; info.iova is (base, len), info.vaddr is vaddr.
\* dirty_bitmap is has_bitmap (non-NULL), its size in bytes and the set of
\* bit numbers that are set.
\* A slot that holds no region is empty at the one address no region can
\* start at, so that the scans of dma.h over the slots below nregions find
\* no address in it and no SG's base equal to its base.
EmptyRegion ==
    [base |-> AddrMod - 1, len |-> 0, prot |-> 0, vaddr |-> NULL, refcnt |-> 0,
     has_bitmap |-> FALSE, nbytes |-> 0, bitmap |-> {}]

Dma == [regions |-> regions, nregions |-> nregions,
        dirty_pgsize |-> dirty_pgsize]

Installed(dma) == 0 .. (dma.nregions - 1)

\* iov_end(iov): iov_base + iov_len, pointer arithmetic of the address width.
iov_end(region) == (region.base + region.len) % AddrMod

HasWrite(prot) == (prot \div PROT_WRITE) % 2 = 1

Min(a, b) == IF a < b THEN a ELSE b

\* ---------------------------------------------------------- dirty marking
_dma_should_mark_dirty(dma, prot) ==
    HasWrite(prot) /\ dma.dirty_pgsize > 0

_get_pgstart(pgsize, base_addr, offset) ==
    ((offset - base_addr + AddrMod) % AddrMod) \div pgsize

_get_pgend(pgsize, len, start) ==
    (start + (len \div pgsize) + (IF len % pgsize # 0 THEN 1 ELSE 0) - 1
     + AddrMod) % AddrMod

\* <<start, end>> as _dma_bitmap_get_pgrange stores them.
_dma_bitmap_get_pgrange(dma, region, s) ==
    LET start == _get_pgstart(dma.dirty_pgsize, region.base, s.offset)
    IN  <<start, _get_pgend(dma.dirty_pgsize, s.length, start)>>

\* The region after the marking loop, and whether the loop left the bitmap's
\* allocation (or the assert on dirty_bitmap failed).
\* The loop over i = start .. end that sets bit i % CHAR_BIT of byte
\* i / CHAR_BIT.
MarkRange(region, rng) ==
    LET inb == {i \in rng[1] .. rng[2] : i \div CHAR_BIT < region.nbytes}
    IN  [region |-> [region EXCEPT !.bitmap = @ \cup inb],
         ub |-> inb # rng[1] .. rng[2]]

_dma_mark_dirty(dma, region, s) ==
    IF ~region.has_bitmap
    THEN [region |-> region, ub |-> TRUE]
    ELSE MarkRange(region, _dma_bitmap_get_pgrange(dma, region, s))

\* ------------------------------------------------------------ dma_init_sg
ProtViolation(prot, region_prot) == HasWrite(prot) /\ ~HasWrite(region_prot)

\* len arrives as uint32_t.
\* An entry that says mappable whatever the region's host mapping is.
SgOf_mappable(region, dma_addr, len, region_index) ==
    [dma_addr |-> region.base,
     region |-> region_index,
     offset |-> (dma_addr - region.base + AddrMod) % AddrMod,
     length |-> len % LenMod,
     mappable |-> TRUE]

\* The entry dma_init_sg fills in; len arrives as uint32_t.
SgOf(region, dma_addr, len, region_index) ==
    [dma_addr |-> region.base,
     region |-> region_index,
     offset |-> (dma_addr - region.base + AddrMod) % AddrMod,
     length |-> len % LenMod,
     mappable |-> region.vaddr # NULL]

\* The outcome of dma_init_sg once the entry s is filled in and m is what
\* _dma_mark_dirty left.
Marked(dma, s, m) ==
    [ret |-> 0, errno |-> 0, sg |-> <<s>>,
     regions |-> [dma.regions EXCEPT ![s.region] = m.region],
     ub |-> m.ub]

InitSg(dma, s, prot) ==
    IF ProtViolation(prot, dma.regions[s.region].prot)
    THEN [ret |-> -1, errno |-> EACCES, sg |-> <<>>,
          regions |-> dma.regions, ub |-> FALSE]
    ELSE IF _dma_should_mark_dirty(dma, prot)
    THEN Marked(dma, s, _dma_mark_dirty(dma, dma.regions[s.region], s))
    ELSE [ret |-> 0, errno |-> 0, sg |-> <<s>>,
          regions |-> dma.regions, ub |-> FALSE]

dma_init_sg(dma, dma_addr, len, prot, region_index) ==
    InitSg(dma, SgOf(dma.regions[region_index], dma_addr, len, region_index),
           prot)

\* ----------------------------------------------------- _dma_addr_sg_split
\* The installed regions whose interval [base, base+len) contains addr.
RegionAt(dma, addr) ==
    {i \in Installed(dma) :
        /\ dma.regions[i].base <= addr
        /\ addr < dma.regions[i].base + dma.regions[i].len}

LowestOf(S) == CHOOSE i \in S : \A j \in S : i <= j

\* The walk over adjacent regions: the chunks <<region, address, length>>
\* that cover [addr, addr+remaining), or ok = FALSE at the first byte that no
\* region contains.
RECURSIVE SplitWalk(_, _, _)
\* The chunk at addr, n bytes of region idx, before the chunks of the rest
\* of the walk.
WalkOn(idx, addr, n, rest) ==
    [ok |-> rest.ok,
     chunks |-> <<[region |-> idx, addr |-> addr, len |-> n]>> \o rest.chunks]

WalkFrom(dma, idx, addr, n, remaining) ==
    WalkOn(idx, addr, n, SplitWalk(dma, addr + n, remaining - n))

WalkIn(dma, idx, addr, remaining) ==
    WalkFrom(dma, idx, addr,
             Min(dma.regions[idx].base + dma.regions[idx].len - addr,
                 remaining),
             remaining)

SplitWalk(dma, addr, remaining) ==
    IF remaining = 0
    THEN [ok |-> TRUE, chunks |-> <<>>]
    ELSE IF RegionAt(dma, addr) = {}
    THEN [ok |-> FALSE, chunks |-> <<>>]
    ELSE WalkIn(dma, LowestOf(RegionAt(dma, addr)), addr, remaining)

\* The SGs of chunks k.. emitted in order by dma_init_sg; stops at the first
\* entry dma_init_sg refuses.
RECURSIVE SplitEmit(_, _, _, _)
\* The entry of chunk k before the entries of the chunks behind it.
EmitOn(one, rest) ==
    [ret |-> rest.ret, errno |-> rest.errno, sg |-> one.sg \o rest.sg,
     regions |-> rest.regions, ub |-> one.ub \/ rest.ub]

EmitFrom(dma, chunks, k, prot, one) ==
    IF one.ret < 0
    THEN one
    ELSE EmitOn(one, SplitEmit([dma EXCEPT !.regions = one.regions],
                               chunks, k + 1, prot))

SplitEmit(dma, chunks, k, prot) ==
    IF k > Len(chunks)
    THEN [ret |-> 0, errno |-> 0, sg |-> <<>>, regions |-> dma.regions,
          ub |-> FALSE]
    ELSE EmitFrom(dma, chunks, k, prot,
                  dma_init_sg(dma, chunks[k].addr, chunks[k].len, prot,
                              chunks[k].region))

BadAddress(dma) ==
    [ret |-> -1, errno |-> EINVAL, sg |-> <<>>, regions |-> dma.regions,
     ub |-> FALSE]

\* len arrives as uint32_t.
\* The count of entries when all of them were emitted, the failure of
\* dma_init_sg otherwise.
Emitted(e, needed) ==
    [ret |-> IF e.ret < 0 THEN e.ret ELSE needed,
     errno |-> e.errno, sg |-> e.sg, regions |-> e.regions, ub |-> e.ub]

SplitOf(dma, walk, max_sg, prot) ==
    IF ~walk.ok
    THEN BadAddress(dma)
    ELSE IF Len(walk.chunks) > max_sg
    THEN [ret |-> -(Len(walk.chunks) + 1), errno |-> 0, sg |-> <<>>,
          regions |-> dma.regions, ub |-> FALSE]
    ELSE Emitted(SplitEmit(dma, walk.chunks, 1, prot), Len(walk.chunks))

\* len arrives as uint32_t.
_dma_addr_sg_split(dma, dma_addr, len, max_sg, prot) ==
    IF RegionAt(dma, dma_addr) = {}
    THEN BadAddress(dma)
    ELSE SplitOf(dma, SplitWalk(dma, dma_addr, len % LenMod), max_sg, prot)

\* --------------------------------------------------------- dma_addr_to_sg
FastPath(dma, hint, dma_addr, len, max_sg) ==
    LET region == dma.regions[hint]
        region_end == iov_end(region)
    IN  /\ max_sg > 0
        /\ len > 0
        /\ dma_addr >= region.base
        /\ (dma_addr + len) % AddrMod <= region_end
        /\ hint < dma.nregions

\* len is size_t here; the result carries the new value of region_hint.
FastResult(one, hint) ==
    [ret |-> IF one.ret < 0 THEN one.ret ELSE 1,
     errno |-> one.errno, sg |-> one.sg, regions |-> one.regions,
     hint |-> hint, ub |-> one.ub]

\* region_hint = sg->region: the region of the first entry.
SlowResult(s, hint) ==
    [ret |-> s.ret, errno |-> s.errno, sg |-> s.sg, regions |-> s.regions,
     hint |-> IF s.ret > 0 THEN s.sg[1].region ELSE hint,
     ub |-> s.ub]

dma_addr_to_sg(dma, hint, dma_addr, len, max_sg, prot) ==
    IF FastPath(dma, hint, dma_addr, len, max_sg)
    THEN FastResult(dma_init_sg(dma, dma_addr, len, prot, hint), hint)
    ELSE SlowResult(_dma_addr_sg_split(dma, dma_addr, len, max_sg, prot),
                    hint)

\* -------------------------------------------------- dma_map_sg / unmap_sg
RECURSIVE dma_map_sg_loop(_, _, _, _, _)
\* iov[i] as the loop body fills it in.  Host addresses have a range of
\* their own, above the DMA addresses; a host mapping does not wrap.
IovOf(region, s) ==
    [iov_base |-> region.vaddr + s.offset, iov_len |-> s.length]

\* iov[i] in front of what the iterations behind i wrote.
MapOn(one, rest) == [rest EXCEPT !.iov = <<one>> \o @]

\* A loop that counts the reference before it looks for the host mapping.
RECURSIVE dma_map_sg_loop_early(_, _, _, _, _)
dma_map_sg_loop_early(regs, nreg, sgl, i, cnt) ==
    IF i > cnt
    THEN [ret |-> 0, regions |-> regs, iov |-> <<>>]
    ELSE IF sgl[i].region >= nreg
    THEN [ret |-> -EINVAL, regions |-> regs, iov |-> <<>>]
    ELSE IF regs[sgl[i].region].vaddr = NULL
    THEN [ret |-> -EFAULT,
          regions |-> [regs EXCEPT ![sgl[i].region].refcnt = @ + 1],
          iov |-> <<>>]
    ELSE MapOn(IovOf(regs[sgl[i].region], sgl[i]),
               dma_map_sg_loop_early(
                   [regs EXCEPT ![sgl[i].region].refcnt = @ + 1],
                   nreg, sgl, i + 1, cnt))

dma_map_sg_loop(regs, nreg, sgl, i, cnt) ==
    IF i > cnt
    THEN [ret |-> 0, regions |-> regs, iov |-> <<>>]
    ELSE IF sgl[i].region >= nreg
    THEN [ret |-> -EINVAL, regions |-> regs, iov |-> <<>>]
    ELSE IF regs[sgl[i].region].vaddr = NULL
    THEN [ret |-> -EFAULT, regions |-> regs, iov |-> <<>>]
    ELSE MapOn(IovOf(regs[sgl[i].region], sgl[i]),
               dma_map_sg_loop(
                   [regs EXCEPT ![sgl[i].region].refcnt = @ + 1],
                   nreg, sgl, i + 1, cnt))

dma_map_sg(dma, sgl, cnt) ==
    dma_map_sg_loop(dma.regions, dma.nregions, sgl, 1, cnt)

\* The inner loop of dma_unmap_sg: the first r < nregions whose base is
\* dma_addr, or nregions when there is none.
UnmapFind(regs, nreg, dma_addr) ==
    LET hit == {j \in 0 .. (nreg - 1) : regs[j].base = dma_addr}
    IN  IF hit = {} THEN nreg ELSE LowestOf(hit)

BadRegion(r, nreg) == r > nreg

RECURSIVE dma_unmap_sg_loop(_, _, _, _, _)
dma_unmap_sg_loop(regs, nreg, sgl, i, cnt) ==
    IF i > cnt
    THEN [regions |-> regs, ub |-> FALSE]
    ELSE LET r == UnmapFind(regs, nreg, sgl[i].dma_addr)
         IN  IF BadRegion(r, nreg)
             THEN dma_unmap_sg_loop(regs, nreg, sgl, i + 1, cnt)
             ELSE IF r \notin Slots
             THEN \* r->refcnt-- one past the end of the table
                  LET rest == dma_unmap_sg_loop(regs, nreg, sgl, i + 1, cnt)
                  IN  [regions |-> rest.regions, ub |-> TRUE]
             ELSE dma_unmap_sg_loop([regs EXCEPT ![r].refcnt = @ - 1],
                                    nreg, sgl, i + 1, cnt)

\* An unmap that reads sg->dma_addr where it should read sg[i].dma_addr.
dma_unmap_sg_first(dma, sgl, cnt) ==
    dma_unmap_sg_loop(dma.regions, dma.nregions,
                      [i \in 1 .. Len(sgl) |-> sgl[1]], 1, cnt)

dma_unmap_sg(dma, sgl, cnt) ==
    dma_unmap_sg_loop(dma.regions, dma.nregions, sgl, 1, cnt)

\* ---------------------------------------------- dma_controller_add_region
\* A conflict search that only asks whether the new region starts inside an
\* installed one.
Overlaps_start_only(dma_addr, size, region) ==
    /\ region.base <= dma_addr
    /\ dma_addr < region.base + region.len

\* [dma_addr, dma_addr+size) and the region's interval share a byte.
Overlaps(dma_addr, size, region) ==
    /\ dma_addr < region.base + region.len
    /\ region.base < dma_addr + size

\* Bytes of a bitmap of ceil(len / pgsize) bits.
BitmapBytes(len, pgsize) ==
    LET bits == (len + pgsize - 1) \div pgsize
    IN  (bits + CHAR_BIT - 1) \div CHAR_BIT

\* A registration that allocates no bitmap.
NewRegion_nobitmap(dma, a) ==
    [base |-> a.addr, len |-> a.size, prot |-> a.prot, vaddr |-> a.vaddr,
     refcnt |-> 0, has_bitmap |-> FALSE, nbytes |-> 0, bitmap |-> {}]

NewRegion(dma, a) ==
    [base |-> a.addr, len |-> a.size, prot |-> a.prot, vaddr |-> a.vaddr,
     refcnt |-> 0,
     has_bitmap |-> dma.dirty_pgsize > 0,
     nbytes |-> IF dma.dirty_pgsize > 0
                THEN BitmapBytes(a.size, dma.dirty_pgsize) ELSE 0,
     bitmap |-> {}]

\* An add_region that reports a conflict at x as -x.
dma_controller_add_region_x(dma, a) ==
    LET conflict == {i \in Installed(dma) :
                        Overlaps(a.addr, a.size, dma.regions[i])}
    IN  IF conflict # {}
        THEN [ret |-> -LowestOf(conflict), regions |-> dma.regions,
              nregions |-> dma.nregions]
        ELSE IF dma.nregions = MaxRegions
        THEN [ret |-> -ENOSPC, regions |-> dma.regions,
              nregions |-> dma.nregions]
        ELSE [ret |-> dma.nregions,
              regions |-> [dma.regions EXCEPT
                              ![dma.nregions] = NewRegion(dma, a)],
              nregions |-> dma.nregions + 1]

\* a.vaddr is what mmap gave: NULL when it failed.
dma_controller_add_region(dma, a) ==
    LET conflict == {i \in Installed(dma) :
                        Overlaps(a.addr, a.size, dma.regions[i])}
    IN  IF conflict # {}
        THEN [ret |-> -(LowestOf(conflict) + 1), regions |-> dma.regions,
              nregions |-> dma.nregions]
        ELSE IF dma.nregions = MaxRegions
        THEN [ret |-> -ENOSPC, regions |-> dma.regions,
              nregions |-> dma.nregions]
        ELSE [ret |-> dma.nregions,
              regions |-> [dma.regions EXCEPT
                              ![dma.nregions] = NewRegion(dma, a)],
              nregions |-> dma.nregions + 1]

\* ------------------------------------------- dma_controller_remove_region
ExactMatch(region, dma_addr, size) ==
    region.len > 0 /\ region.base = dma_addr /\ region.len = size

\* A removal that never looks at the refcount.
RemoveBlocked_never(region) == FALSE

RemoveBlocked(region) == region.refcnt > 0

\* A removal that closes the gap: the regions behind idx move down by one
\* slot.
RemoveSlot_repack(dma, idx) ==
    [regions |-> [i \in Slots |->
                     IF i < idx THEN dma.regions[i]
                     ELSE IF i + 1 < dma.nregions THEN dma.regions[i + 1]
                     ELSE EmptyRegion],
     nregions |-> dma.nregions - 1]

\* The table without the region at idx.  The regions that stay keep their
\* indices: the slot is left empty, and nregions falls back to just behind
\* the highest slot still in use.
RemoveSlot(dma, idx) ==
    LET regs == [dma.regions EXCEPT ![idx] = EmptyRegion]
        used == {i \in Installed(dma) : regs[i].len > 0}
    IN  [regions |-> regs,
         nregions |-> IF used = {} THEN 0
                      ELSE (CHOOSE i \in used : \A j \in used : j <= i) + 1]

\* cb counts the calls of dma_unregister.
dma_controller_remove_region(dma, dma_addr, size) ==
    LET found == {i \in Installed(dma) :
                     ExactMatch(dma.regions[i], dma_addr, size)}
    IN  IF found = {}
        THEN [ret |-> -ENOENT, cb |-> 0, regions |-> dma.regions,
              nregions |-> dma.nregions]
        ELSE LET idx == LowestOf(found)
             IN  IF RemoveBlocked(dma.regions[idx])
                 THEN [ret |-> -EBUSY, cb |-> 1, regions |-> dma.regions,
                       nregions |-> dma.nregions]
                 ELSE LET t == RemoveSlot(dma, idx)
                      IN  [ret |-> 0, cb |-> 0, regions |-> t.regions,
                           nregions |-> t.nregions]

\* --------------------------------------------------- dirty page logging
IsPowerOfTwo(n) == \E k \in 0 .. AddrBits : n = 2 ^ k

dma_controller_dirty_page_logging_start(dma, pgsize) ==
    IF ~IsPowerOfTwo(pgsize) \/ dma.dirty_pgsize > 0
    THEN [ret |-> -EINVAL, regions |-> dma.regions,
          dirty_pgsize |-> dma.dirty_pgsize]
    ELSE [ret |-> 0,
          regions |-> [i \in Slots |->
              IF i \in Installed(dma) /\ dma.regions[i].len > 0
              THEN [dma.regions[i] EXCEPT
                       !.has_bitmap = TRUE,
                       !.nbytes = BitmapBytes(dma.regions[i].len, pgsize),
                       !.bitmap = {}]
              ELSE dma.regions[i]],
          dirty_pgsize |-> pgsize]

dma_controller_dirty_page_logging_stop(dma) ==
    [ret |-> 0,
     regions |-> [i \in Slots |->
         [dma.regions[i] EXCEPT !.has_bitmap = FALSE, !.nbytes = 0,
                                !.bitmap = {}]],
     dirty_pgsize |-> 0]

\* The bits a snapshot of the region reports: its bitmap, or every page of
\* the region when it has none.
Snapshot(region, pgsize) ==
    IF region.has_bitmap
    THEN region.bitmap
    ELSE 0 .. ((region.len + pgsize - 1) \div pgsize - 1)

\* The snapshot of region idx, and the bitmap cleared by the read.
DirtyGot(dma, idx) ==
    [ret |-> 0, idx |-> idx,
     data |-> Snapshot(dma.regions[idx], dma.dirty_pgsize),
     regions |-> [dma.regions EXCEPT ![idx].bitmap = {}]]

DirtyRefused(dma) ==
    [ret |-> -EINVAL, idx |-> -1, data |-> {}, regions |-> dma.regions]

\* The errors have names, not numbers, in the description: all are -EINVAL
\* here.
dma_controller_dirty_page_get(dma, addr, len, pgsize, size) ==
    IF dma.dirty_pgsize = 0 \/ pgsize # dma.dirty_pgsize
    THEN DirtyRefused(dma)
    ELSE IF \A i \in Installed(dma) : ~ExactMatch(dma.regions[i], addr, len)
    THEN DirtyRefused(dma)
    ELSE IF size < BitmapBytes(len, pgsize)
    THEN DirtyRefused(dma)
    ELSE DirtyGot(dma, LowestOf({i \in Installed(dma) :
                                    ExactMatch(dma.regions[i], addr, len)}))

\* ------------------------------------------------------------ pci.c
\* The region callback of the config space, reg_info[CFG].cb: none, or one
\* that handles all it is asked for, one byte of it, nothing, or fails.
RegionCbs == {"NULL", "all", "one", "zero", "fail"}

\* The capabilities of the device, each with its offset and size.
CapLists == {<<>>, <<[off |-> PCI_STD_HEADER_SIZEOF + 2, size |-> 2]>>}

\* The six BARs of the header.
BarIndexes == 0 .. 5

\* vfu_pci_hdr_t as calloc leaves it in vfu_pci_init: the enable bits of the
\* command register, the BARs, the interrupt line, the latency timer and the
\* expansion ROM address.  ret is what the last pci_hdr_write returned.
ZeroHdr ==
    [cmd |-> [iose |-> 0, mse |-> 0, bme |-> 0, see |-> 0, id |-> 0,
              mwie |-> 0],
     bars |-> [n \in BarIndexes |-> 0], iline |-> 0, mlt |-> 0, erom |-> 0,
     ret |-> 0]

\* reg_info[0 .. 5] of a device without BAR regions: size, and whether flags
\* has VFU_REGION_FLAG_MEM.
NoBars == [n \in BarIndexes |-> [size |-> 0, mem |-> FALSE]]

\* No access under way on a device with region callback cb and
\* capabilities caps.  size and cb are the locals of the loop, asked is the
\* count the caller passed.
NoAccess(cb, caps) ==
    [pc |-> "idle", count |-> 0, offset |-> 0, start |-> 0, ret |-> 0,
     size |-> 0, cb |-> "none", asked |-> 0, is_write |-> FALSE,
     buf_ok |-> TRUE, region_cb |-> cb, caps |-> caps,
     hdr |-> ZeroHdr, reg_info |-> NoBars]

Bars == {PCI_BASE_ADDRESS_0 + 4 * i : i \in 0 .. 5}

\* buf_ok: the bytes written are ones handle_command_write and
\* handle_erom_write accept.
pci_hdr_write(count, offset, buf_ok) ==
    CASE offset = PCI_COMMAND ->
            IF count # 2 \/ ~buf_ok THEN -EINVAL ELSE 0
      [] offset = PCI_STATUS -> 0
      [] offset = PCI_INTERRUPT_PIN -> -EINVAL
      [] offset = PCI_INTERRUPT_LINE -> 0
      [] offset = PCI_LATENCY_TIMER -> 0
      [] offset \in Bars -> 0
      [] offset = PCI_ROM_ADDRESS ->
            IF count # 4 \/ ~buf_ok THEN -EINVAL ELSE 0
      [] OTHER -> -EINVAL

pci_hdr_access(count, offset, is_write, buf_ok) ==
    IF is_write
    THEN IF pci_hdr_write(count, offset, buf_ok) < 0
         THEN pci_hdr_write(count, offset, buf_ok)
         ELSE count
    ELSE count

\* What the region callback returns when asked for count bytes.
CbReturn(cb, count) ==
    CASE cb = "all" -> count
      [] cb = "one" -> 1
      [] cb = "zero" -> 0
      [] cb = "fail" -> -EINVAL

pci_nonstd_access(cb, count, is_write) ==
    IF cb # "NULL"
    THEN CbReturn(cb, count)
    ELSE IF is_write
    THEN -EINVAL
    ELSE count

\* The handler of a capability returns the bytes it was asked for, or fails
\* on a write it does not accept.
pci_cap_access(count, is_write, buf_ok) ==
    IF is_write /\ ~buf_ok THEN -EINVAL ELSE count

\* The first capability that [offset, offset + count) touches; 0 for none.
cap_find_by_offset(caps, offset, count) ==
    LET hit == {i \in 1 .. Len(caps) :
                   /\ offset + count > caps[i].off
                   /\ offset < caps[i].off + caps[i].size}
    IN  IF hit = {} THEN 0 ELSE CHOOSE i \in hit : \A j \in hit : i <= j

SegmentAt(caps, cap, count, offset) ==
    IF cap = 0
    THEN [cb |-> "pci_nonstd_access", size |-> count]
    ELSE IF offset < caps[cap].off
    THEN [cb |-> "pci_nonstd_access", size |-> caps[cap].off - offset]
    ELSE [cb |-> "pci_cap_access", size |-> Min(count, caps[cap].size)]

pci_config_space_next_segment(caps, count, offset) ==
    IF offset < PCI_STD_HEADER_SIZEOF
    THEN [cb |-> "pci_hdr_access",
          size |-> Min(count, PCI_STD_HEADER_SIZEOF - offset)]
    ELSE SegmentAt(caps, cap_find_by_offset(caps, offset, count), count,
                   offset)

\* ret = cb(vfu_ctx, buf, size, offset, is_write)
Handled(p, seg) ==
    CASE seg.cb = "pci_hdr_access" ->
            pci_hdr_access(seg.size, p.offset, p.is_write, p.buf_ok)
      [] seg.cb = "pci_cap_access" ->
            pci_cap_access(seg.size, p.is_write, p.buf_ok)
      [] seg.cb = "pci_nonstd_access" ->
            pci_nonstd_access(p.region_cb, seg.size, p.is_write)

\* One turn of the loop of pci_config_space_access, in which the handler of
\* segment seg returned ret.
Turn(p, seg, ret) ==
    IF ret < 0
    THEN [p EXCEPT !.pc = "done", !.ret = ret, !.size = seg.size,
                   !.cb = seg.cb]
    ELSE [p EXCEPT !.ret = ret, !.size = seg.size, !.cb = seg.cb,
                   !.offset = @ + ret, !.count = @ - ret]

pci_config_space_access_loop(p) ==
    Turn(p, pci_config_space_next_segment(p.caps, p.count, p.offset),
         Handled(p, pci_config_space_next_segment(p.caps, p.count,
                                                  p.offset)))

\* ---------------------------------------------- pci.c: header writes
\* (v & b) for a single bit b, as 0 or 1.
Bit(v, b) == (v \div b) % 2

\* v &= ~b for a single bit b.
ClearBit(v, b) == IF Bit(v, b) = 1 THEN v - b ELSE v

RECURSIVE BitAnd(_, _)
BitAnd(a, b) ==
    IF a = 0 \/ b = 0
    THEN 0
    ELSE (a % 2) * (b % 2) + 2 * BitAnd(a \div 2, b \div 2)

RECURSIVE BitOr(_, _)
BitOr(a, b) ==
    IF a = 0
    THEN b
    ELSE IF b = 0
    THEN a
    ELSE (IF a % 2 = 1 \/ b % 2 = 1 THEN 1 ELSE 0)
             + 2 * BitOr(a \div 2, b \div 2)

\* ~a of a uint32_t.
BitNot(a) == RegMod - 1 - a

\* ~0x0f, ~0x03 and ~0x7ff.
PCI_BASE_ADDRESS_MEM_MASK == BitNot(15)
PCI_BASE_ADDRESS_IO_MASK == BitNot(3)
PCI_ROM_ADDRESS_MASK == BitNot(2047)

BAR_INDEX(offset) == (offset - PCI_BASE_ADDRESS_0) \div 4

\* cfg_addr |= (raw & ~mask); raw = htole32(cfg_addr), on a little-endian
\* host.
BarStored(cfg_addr, raw, mask) == BitOr(cfg_addr, BitAnd(raw, BitNot(mask)))

\* The BAR's raw value after the write of v; reg is reg_info[bar_index].
pci_hdr_write_bar(raw, reg, v) ==
    IF reg.size = 0
    THEN raw
    ELSE BarStored(IF v = RegMod - 1
                   THEN (BitNot(reg.size) + 1) % RegMod
                   ELSE v,
                   raw,
                   IF reg.mem THEN PCI_BASE_ADDRESS_MEM_MASK
                              ELSE PCI_BASE_ADDRESS_IO_MASK)

\* v after the seven tests of handle_command_write took their flags out.
Unconsumed(v) ==
    ClearBit(ClearBit(ClearBit(ClearBit(ClearBit(ClearBit(ClearBit(v,
        PCI_COMMAND_IO), PCI_COMMAND_MEMORY), PCI_COMMAND_MASTER),
        PCI_COMMAND_SERR), PCI_COMMAND_INTX_DISABLE), PCI_COMMAND_INVALIDATE),
        PCI_COMMAND_VGA_PALETTE)

\* Each of the six tests sets or clears its enable bit before the test of
\* the flags that are left over.
handle_command_write(cmd, v, count) ==
    IF count # 2
    THEN [ret |-> -EINVAL, cmd |-> cmd]
    ELSE [ret |-> IF Unconsumed(v) # 0 THEN -EINVAL ELSE 0,
          cmd |-> [iose |-> Bit(v, PCI_COMMAND_IO),
                   mse |-> Bit(v, PCI_COMMAND_MEMORY),
                   bme |-> Bit(v, PCI_COMMAND_MASTER),
                   see |-> Bit(v, PCI_COMMAND_SERR),
                   id |-> Bit(v, PCI_COMMAND_INTX_DISABLE),
                   mwie |-> Bit(v, PCI_COMMAND_INVALIDATE)]]

handle_erom_write(erom, v, count) ==
    IF count # 4
    THEN [ret |-> -EINVAL, erom |-> erom]
    ELSE IF v = PCI_ROM_ADDRESS_MASK
    THEN [ret |-> 0, erom |-> erom]
    ELSE IF v = 0
    THEN [ret |-> 0, erom |-> 0]
    ELSE IF v = BitNot(PCI_ROM_ADDRESS_ENABLE)
    THEN [ret |-> 0, erom |-> erom]
    ELSE [ret |-> -EINVAL, erom |-> erom]

CommandWritten(h, r) == [h EXCEPT !.cmd = r.cmd, !.ret = r.ret]

EromWritten(h, r) == [h EXCEPT !.erom = r.erom, !.ret = r.ret]

\* The header after pci_hdr_write(vfu_ctx, buf, count, offset), where the
\* bytes of buf are those of v, lowest first.
HdrWritten(h, reg_info, v, count, offset) ==
    CASE offset = PCI_COMMAND ->
            CommandWritten(h, handle_command_write(h.cmd, v, count))
      [] offset = PCI_STATUS -> [h EXCEPT !.ret = 0]
      [] offset = PCI_INTERRUPT_PIN -> [h EXCEPT !.ret = -EINVAL]
      [] offset = PCI_INTERRUPT_LINE ->
            [h EXCEPT !.iline = v % 256, !.ret = 0]
      [] offset = PCI_LATENCY_TIMER ->
            [h EXCEPT !.mlt = v % 256, !.ret = 0]
      [] offset \in Bars ->
            [h EXCEPT !.bars[BAR_INDEX(offset)] =
                          pci_hdr_write_bar(@, reg_info[BAR_INDEX(offset)],
                                            v),
                      !.ret = 0]
      [] offset = PCI_ROM_ADDRESS ->
            EromWritten(h, handle_erom_write(h.erom, v, count))
      [] OTHER -> [h EXCEPT !.ret = -EINVAL]

\* ----------------------------------------------------------------- inputs
\* Registrations: two adjacent regions (the second longer than a uint32_t
\* length can say, read-only, or writable with a failed mmap) and one that
\* overlaps both.
AddInputs ==
    { [addr |-> 0, size |-> 4, prot |-> PROT_READ + PROT_WRITE, vaddr |-> 64],
      [addr |-> 4, size |-> 10, prot |-> PROT_READ, vaddr |-> 68],
      [addr |-> 4, size |-> 10, prot |-> PROT_READ + PROT_WRITE,
       vaddr |-> NULL],
      [addr |-> 2, size |-> 4, prot |-> PROT_READ + PROT_WRITE, vaddr |-> 66] }

RemoveInputs ==
    { [addr |-> 0, size |-> 4], [addr |-> 4, size |-> 10],
      [addr |-> 2, size |-> 4], [addr |-> 0, size |-> 6] }

\* Translations: inside one region, across two regions, past the last
\* region, a length that does not fit uint32_t and a length that makes
\* dma_addr + len wrap.
XlateInputs ==
    [addr : {1, 3, 5}, len : {2, LenMod + 1, AddrMod - 1},
     max_sg : {1, MaxSg}, prot : {PROT_READ, PROT_READ + PROT_WRITE}]

\* The translations of the device while it maps and unmaps.
XlateSmall ==
    { [addr |-> 1, len |-> 2, max_sg |-> 1, prot |-> PROT_READ + PROT_WRITE],
      [addr |-> 3, len |-> 2, max_sg |-> MaxSg, prot |-> PROT_READ],
      [addr |-> 5, len |-> 2, max_sg |-> 1, prot |-> PROT_READ] }

PgSizes == {2, 4}

\* Translations while the dirty pages are read: at the start of a region,
\* further inside the second region than its base is high, across the two
\* regions, and one without write intent.
XlateDirty ==
    { [addr |-> 1, len |-> 2, max_sg |-> 1, prot |-> PROT_READ + PROT_WRITE],
      [addr |-> 9, len |-> 2, max_sg |-> 1, prot |-> PROT_READ + PROT_WRITE],
      [addr |-> 3, len |-> 2, max_sg |-> MaxSg,
       prot |-> PROT_READ + PROT_WRITE],
      [addr |-> 1, len |-> 2, max_sg |-> 1, prot |-> PROT_READ] }

\* Reads of the dirty pages: of each region, and one with a buffer too small.
GetInputs ==
    { [addr |-> 0, len |-> 4, pgsize |-> 2, size |-> 1],
      [addr |-> 4, len |-> 10, pgsize |-> 2, size |-> 1],
      [addr |-> 0, len |-> 4, pgsize |-> 4, size |-> 0] }

\* ---------------------------------------------------------------- actions
NoCall ==
    [op |-> "none", ret |-> 0, errno |-> 0, cb |-> 0, bal |-> FALSE,
     iov |-> <<>>, data |-> {}]

\* No snapshot taken, no page written since.
NoneWritten == [got |-> FALSE, pages |-> {}]

\* The pages of the region that hold a byte of [addr, addr+len).
WrittenPages(region, addr, len, pgsize) ==
    {(x - region.base) \div pgsize :
        x \in {y \in addr .. (addr + len - 1) :
                  region.base <= y /\ y < region.base + region.len}}

\* The record of the regions that a call on the table left where they were.
KeepWritten(regs) ==
    [i \in Slots |->
        IF regs[i].len > 0 /\ regs[i].base = regions[i].base
        THEN written[i] ELSE NoneWritten]

NoRefs == [i \in Slots |-> 0]

Refcnts(regs) == [i \in Slots |-> regs[i].refcnt]

Init ==
    /\ regions = [i \in Slots |-> EmptyRegion]
    /\ nregions = 0
    /\ dirty_pgsize = 0
    /\ region_hint = 0
    /\ sg = <<>>
    /\ sg_fresh = TRUE
    /\ map_pre = NoRefs
    /\ ub = FALSE
    /\ written = [i \in Slots |-> NoneWritten]
    /\ last = NoCall
    /\ pci = NoAccess("NULL", <<>>)

AddRegion(a) ==
    /\ ~ub
    /\ LET r == dma_controller_add_region(Dma, a)
       IN  /\ regions' = r.regions
           /\ nregions' = r.nregions
           /\ sg_fresh' = (sg_fresh /\ r.ret < 0)
           /\ written' = KeepWritten(r.regions)
           /\ last' = [NoCall EXCEPT !.op = "add_region", !.ret = r.ret]
    /\ map_pre' = NoRefs
    /\ UNCHANGED pci
    /\ UNCHANGED <<dirty_pgsize, region_hint, sg, ub>>

RemoveRegion(a) ==
    /\ ~ub
    /\ LET r == dma_controller_remove_region(Dma, a.addr, a.size)
       IN  /\ regions' = r.regions
           /\ nregions' = r.nregions
           /\ sg_fresh' = (sg_fresh /\ r.ret < 0)
           /\ written' = KeepWritten(r.regions)
           /\ last' = [NoCall EXCEPT !.op = "remove_region", !.ret = r.ret,
                                     !.cb = r.cb]
    /\ map_pre' = NoRefs
    /\ UNCHANGED pci
    /\ UNCHANGED <<dirty_pgsize, region_hint, sg, ub>>

\* What a call of dma_addr_to_sg that returned r leaves behind, with the
\* entries kept in front of the ones it wrote.
Translated(r, kept, a) ==
    /\ regions' = r.regions
    /\ written' = IF r.ret > 0 /\ HasWrite(a.prot) /\ dirty_pgsize > 0
                  THEN [i \in Slots |->
                           IF written[i].got /\ i < nregions
                           THEN [written[i] EXCEPT !.pages = @ \cup
                                    WrittenPages(regions[i], a.addr, a.len,
                                                 dirty_pgsize)]
                           ELSE written[i]]
                  ELSE written
    /\ region_hint' = r.hint
    /\ ub' = r.ub
    /\ sg' = IF r.ret > 0 THEN kept \o r.sg ELSE kept
    /\ last' = [NoCall EXCEPT !.op = "addr_to_sg", !.ret = r.ret,
                              !.errno = r.errno]

\* The device translates into its SG buffer, either from the start of the
\* buffer or behind the entries it already holds.
AddrToSg(a, append) ==
    /\ ~ub
    /\ append => sg # <<>>
    /\ a.max_sg <= MaxSg - (IF append THEN Len(sg) ELSE 0)
    /\ Translated(dma_addr_to_sg(Dma, region_hint, a.addr, a.len, a.max_sg,
                                 a.prot),
                  IF append THEN sg ELSE <<>>, a)
    /\ sg_fresh' = (append => sg_fresh)
    /\ map_pre' = NoRefs
    /\ UNCHANGED pci
    /\ UNCHANGED <<nregions, dirty_pgsize>>

MapSg ==
    /\ ~ub
    /\ sg # <<>>
    /\ LET m == dma_map_sg(Dma, sg, Len(sg))
       IN  /\ \A i \in Slots : m.regions[i].refcnt <= MaxRef
           /\ regions' = m.regions
           /\ map_pre' = IF m.ret = 0 THEN Refcnts(regions) ELSE NoRefs
           /\ last' = [NoCall EXCEPT !.op = "map_sg", !.ret = m.ret,
                                     !.iov = m.iov]
    /\ UNCHANGED pci
    /\ UNCHANGED <<nregions, dirty_pgsize, region_hint, sg, sg_fresh, ub,
                   written>>

UnmapSg ==
    /\ ~ub
    /\ sg # <<>>
    /\ LET u == dma_unmap_sg(Dma, sg, Len(sg))
           bal == last.op = "map_sg" /\ last.ret = 0 /\ sg_fresh
       IN  /\ \A i \in Slots : u.regions[i].refcnt >= -MaxUnder
           /\ regions' = u.regions
           /\ ub' = u.ub
           /\ map_pre' = IF bal THEN map_pre ELSE NoRefs
           /\ last' = [NoCall EXCEPT !.op = "unmap_sg", !.bal = bal]
    /\ UNCHANGED pci
    /\ UNCHANGED <<nregions, dirty_pgsize, region_hint, sg, sg_fresh,
                   written>>

StartLogging(pgsize) ==
    /\ ~ub
    /\ LET r == dma_controller_dirty_page_logging_start(Dma, pgsize)
       IN  /\ regions' = r.regions
           /\ dirty_pgsize' = r.dirty_pgsize
           /\ last' = [NoCall EXCEPT !.op = "logging_start", !.ret = r.ret]
    /\ map_pre' = NoRefs
    /\ written' = [i \in Slots |-> NoneWritten]
    /\ UNCHANGED pci
    /\ UNCHANGED <<nregions, region_hint, sg, sg_fresh, ub>>

StopLogging ==
    /\ ~ub
    /\ LET r == dma_controller_dirty_page_logging_stop(Dma)
       IN  /\ regions' = r.regions
           /\ dirty_pgsize' = r.dirty_pgsize
           /\ last' = [NoCall EXCEPT !.op = "logging_stop", !.ret = r.ret]
    /\ map_pre' = NoRefs
    /\ written' = [i \in Slots |-> NoneWritten]
    /\ UNCHANGED pci
    /\ UNCHANGED <<nregions, region_hint, sg, sg_fresh, ub>>

\* What a call of dma_controller_dirty_page_get that returned r leaves
\* behind.
Got(r) ==
    /\ regions' = r.regions
    /\ written' = IF r.ret = 0
                  THEN [written EXCEPT ![r.idx] = [got |-> TRUE, pages |-> {}]]
                  ELSE written
    /\ last' = [NoCall EXCEPT !.op = "dirty_page_get", !.ret = r.ret,
                              !.data = r.data]

DirtyPageGet(g) ==
    /\ ~ub
    /\ Got(dma_controller_dirty_page_get(Dma, g.addr, g.len, g.pgsize, g.size))
    /\ map_pre' = NoRefs
    /\ UNCHANGED pci
    /\ UNCHANGED <<nregions, dirty_pgsize, region_hint, sg, sg_fresh, ub>>

\* The device at work: registrations, translations into the SG buffer,
\* mappings and unmappings.
Next ==
    \/ \E a \in AddInputs : AddRegion(a)
    \/ \E a \in RemoveInputs : RemoveRegion(a)
    \/ \E a \in XlateSmall : \E append \in BOOLEAN : AddrToSg(a, append)
    \/ MapSg
    \/ UnmapSg

Spec == Init /\ [][Next]_vars

\* Translation with dirty-page logging: every translation input, no mapping.
NextXlate ==
    \/ \E a \in AddInputs : AddRegion(a)
    \/ \E a \in RemoveInputs : RemoveRegion(a)
    \/ \E a \in XlateInputs : AddrToSg(a, FALSE)
    \/ \E p \in PgSizes : StartLogging(p)
    \/ StopLogging

SpecXlate == Init /\ [][NextXlate]_vars

\* Dirty-page logging with its reads.
NextDirty ==
    \/ \E a \in AddInputs : AddRegion(a)
    \/ \E a \in RemoveInputs : RemoveRegion(a)
    \/ \E a \in XlateDirty : AddrToSg(a, FALSE)
    \/ \E p \in PgSizes : StartLogging(p)
    \/ StopLogging
    \/ \E g \in GetInputs : DirtyPageGet(g)

SpecDirty == Init /\ [][NextDirty]_vars

\* --------------------------------------------- config space accesses
\* Accesses that start in the standard header or behind it, and end in it or
\* behind it.
ConfigInputs ==
    [offset : {PCI_INTERRUPT_LINE, PCI_INTERRUPT_PIN,
               PCI_STD_HEADER_SIZEOF - 2, PCI_STD_HEADER_SIZEOF,
               PCI_STD_HEADER_SIZEOF + 2},
     count : {0, 1, 2, 4, 6},
     is_write : BOOLEAN,
     buf_ok : BOOLEAN]

InitPci ==
    /\ regions = [i \in Slots |-> EmptyRegion]
    /\ nregions = 0
    /\ dirty_pgsize = 0
    /\ region_hint = 0
    /\ sg = <<>>
    /\ sg_fresh = TRUE
    /\ map_pre = NoRefs
    /\ ub = FALSE
    /\ written = [i \in Slots |-> NoneWritten]
    /\ last = NoCall
    /\ \E cb \in RegionCbs : \E caps \in CapLists : pci = NoAccess(cb, caps)

\* pci_config_space_access is called: start = offset, ret = 0.
ConfigAccess(a) ==
    /\ pci.pc # "loop"
    /\ pci' = [NoAccess(pci.region_cb, pci.caps) EXCEPT
                  !.pc = "loop", !.count = a.count, !.offset = a.offset,
                  !.start = a.offset, !.asked = a.count,
                  !.is_write = a.is_write, !.buf_ok = a.buf_ok,
                  !.hdr = pci.hdr, !.reg_info = pci.reg_info]
    /\ UNCHANGED dma_vars

\* One turn of while (count > 0).
ConfigSegment ==
    /\ pci.pc = "loop"
    /\ pci.count > 0
    /\ pci' = pci_config_space_access_loop(pci)
    /\ UNCHANGED dma_vars

\* The loop is left: return offset - start.
ConfigReturn ==
    /\ pci.pc = "loop"
    /\ pci.count = 0
    /\ pci' = [pci EXCEPT !.pc = "done", !.ret = pci.offset - pci.start]
    /\ UNCHANGED dma_vars

NextPci ==
    \/ \E a \in ConfigInputs : ConfigAccess(a)
    \/ ConfigSegment
    \/ ConfigReturn

SpecPci == InitPci /\ [][NextPci]_vars

\* ------------------------------------------------------ header writes
\* Devices: a memory BAR 0 and an I/O BAR 1, or a memory BAR 0 alone; no
\* region behind the other BARs.
RegInfos ==
    {[NoBars EXCEPT ![0] = [size |-> 32, mem |-> TRUE],
                    ![1] = [size |-> 4, mem |-> FALSE]],
     [NoBars EXCEPT ![0] = [size |-> 16, mem |-> TRUE]]}

\* A flag that handle_command_write does not know.
CmdOther == 2 * PCI_COMMAND_VGA_PALETTE

\* Command values: none, each flag, all flags, and values with a flag that
\* is not known.
CmdValues ==
    {0, PCI_COMMAND_IO, PCI_COMMAND_MEMORY, PCI_COMMAND_MASTER,
     PCI_COMMAND_SERR, PCI_COMMAND_INTX_DISABLE, PCI_COMMAND_INVALIDATE,
     PCI_COMMAND_VGA_PALETTE,
     PCI_COMMAND_IO + PCI_COMMAND_MEMORY + PCI_COMMAND_MASTER
         + PCI_COMMAND_SERR + PCI_COMMAND_INTX_DISABLE
         + PCI_COMMAND_INVALIDATE + PCI_COMMAND_VGA_PALETTE,
     CmdOther, PCI_COMMAND_IO + CmdOther,
     PCI_COMMAND_MEMORY + PCI_COMMAND_MASTER + CmdOther}

\* BAR values: all ones, aligned addresses, and addresses with low bits set.
BarValues == {0, RegMod - 1, 64, 64 + 8, 128 + 1}

HdrInputs ==
    [offset : {PCI_COMMAND}, count : {2, 4}, v : CmdValues]
    \cup [offset : {PCI_BASE_ADDRESS_0, PCI_BASE_ADDRESS_0 + 4,
                    PCI_BASE_ADDRESS_0 + 8},
          count : {4}, v : BarValues]
    \cup [offset : {PCI_STATUS, PCI_INTERRUPT_PIN, PCI_INTERRUPT_LINE,
                    PCI_LATENCY_TIMER, PCI_ROM_ADDRESS, 0},
          count : {1, 4},
          v : {0, 5, PCI_ROM_ADDRESS_MASK}]

InitHdr ==
    /\ regions = [i \in Slots |-> EmptyRegion]
    /\ nregions = 0
    /\ dirty_pgsize = 0
    /\ region_hint = 0
    /\ sg = <<>>
    /\ sg_fresh = TRUE
    /\ map_pre = NoRefs
    /\ ub = FALSE
    /\ written = [i \in Slots |-> NoneWritten]
    /\ last = NoCall
    /\ \E r \in RegInfos :
          pci = [NoAccess("NULL", <<>>) EXCEPT !.reg_info = r]

\* pci_hdr_write(vfu_ctx, buf, a.count, a.offset) with the bytes of a.v in
\* buf.
HdrWrite(a) ==
    /\ pci.pc = "idle"
    /\ pci' = [pci EXCEPT !.hdr = HdrWritten(pci.hdr, pci.reg_info, a.v,
                                             a.count, a.offset)]
    /\ UNCHANGED dma_vars

NextHdr == \E a \in HdrInputs : HdrWrite(a)

SpecHdr == InitHdr /\ [][NextHdr]_vars

\* ----------------------------------------------------------------- claims

Live(regs, nreg) == {i \in 0 .. (nreg - 1) : regs[i].len > 0}

\* The DMA interval an SG entry stands for starts here.
SgStart(s) == s.dma_addr + s.offset

RECURSIVE SumLen(_)
SumLen(sgl) == IF sgl = <<>> THEN 0 ELSE Head(sgl).length + SumLen(Tail(sgl))

\* C1: after any sequence of add_region and remove_region calls, successful
\* or failed, every two distinct installed regions have disjoint half-open
\* intervals [base, base+len).
C1_NoOverlap ==
    \A i, j \in Live(regions, nregions) :
        i # j =>
            \/ regions[i].base + regions[i].len <= regions[j].base
            \/ regions[j].base + regions[j].len <= regions[i].base

\* Two regions are installed and an add_region has just been refused for
\* overlapping the region at index 0.
C1_Witness ==
    /\ last.op = "add_region"
    /\ last.ret = -1
    /\ Cardinality(Live(regions, nregions)) = 2

\* C2: remove_region of a region whose refcount is > 0 returns -EBUSY, calls
\* the unregister callback once and leaves the table as it was; with the
\* refcount back at 0 it returns 0 and the region is gone; and no step
\* removes a region whose refcount is > 0.
C2_RemoveBusy ==
    [][ /\ \A a \in RemoveInputs : \A i \in Live(regions, nregions) :
              (RemoveRegion(a) /\ ExactMatch(regions[i], a.addr, a.size)) =>
                  /\ regions[i].refcnt > 0 =>
                        /\ last'.ret = -EBUSY
                        /\ last'.cb = 1
                        /\ regions' = regions
                        /\ nregions' = nregions
                  /\ regions[i].refcnt = 0 =>
                        /\ last'.ret = 0
                        /\ last'.cb = 0
                        /\ \A j \in Live(regions', nregions') :
                              ~ExactMatch(regions'[j], a.addr, a.size)
        /\ \A i \in Live(regions, nregions) :
              regions[i].refcnt > 0 =>
                  \E j \in Live(regions', nregions') :
                      /\ regions'[j].base = regions[i].base
                      /\ regions'[j].len = regions[i].len
                      /\ regions'[j].vaddr = regions[i].vaddr
      ]_vars

\* A mapped region has just been refused removal: -EBUSY, one callback, the
\* region still installed with its mapping.
C2_Witness ==
    /\ last.op = "remove_region"
    /\ last.ret = -EBUSY
    /\ last.cb = 1
    /\ \E i \in Live(regions, nregions) :
          regions[i].refcnt > 0 /\ regions[i].vaddr # NULL

\* The SG intervals, in order, are contiguous and start at addr.
RECURSIVE Contiguous(_, _)
Contiguous(sgl, addr) ==
    \/ sgl = <<>>
    \/ /\ SgStart(Head(sgl)) = addr
       /\ Contiguous(Tail(sgl), addr + Head(sgl).length)

\* C3: for every successful addr_to_sg(dma_addr, len, ...) with len > 0,
\* for any len of the size_t parameter, the returned SG entries have
\* lengths summing to len, and their intervals are contiguous and equal
\* [dma_addr, dma_addr+len).
C3_SgCoversSpan ==
    [][ \A a \in XlateInputs :
          (AddrToSg(a, FALSE) /\ last'.ret > 0 /\ a.len > 0) =>
              /\ Len(sg') = last'.ret
              /\ SumLen(sg') = a.len
              /\ Contiguous(sg', a.addr)
      ]_vars

\* Every byte of [addr, addr+len) lies in an installed region whose prot
\* includes WRITE.
EveryByteWritable(regs, nreg, addr, len) ==
    \A x \in addr .. (addr + len - 1) :
        \E i \in Live(regs, nreg) :
            /\ regs[i].base <= x
            /\ x < regs[i].base + regs[i].len
            /\ HasWrite(regs[i].prot)

\* C4: an addr_to_sg call whose prot includes WRITE succeeds only when every
\* byte of [dma_addr, dma_addr+len) lies in a region whose prot includes
\* WRITE; it never returns a positive count while the span covers a byte that
\* is in a region lacking WRITE or in no region.  (The claim's other half,
\* that the failure is -1 with EACCES, is left out here: a failure for a bad
\* address or a short SG buffer is no success either.)
C4_WriteNeedsWritable ==
    [][ \A a \in XlateInputs :
          (AddrToSg(a, FALSE) /\ HasWrite(a.prot) /\ last'.ret > 0) =>
              EveryByteWritable(regions, nregions, a.addr, a.len)
      ]_vars

\* The pages of region i that hold a byte some entry of sgl translates, for
\* the bytes of the entry that lie inside the region.
TranslatedPages(regs, sgl, i, pgsize) ==
    {x \div pgsize :
        x \in UNION {{y \in s.offset .. (s.offset + s.length - 1) :
                         y < regs[i].len} :
                     s \in {sgl[k] : k \in {n \in 1 .. Len(sgl) :
                                              sgl[n].region = i}}}}

\* C5: while logging is active, after a successful write-intent translation
\* (any offset and length, aligned to the page size or not) every page of a
\* region that contains a translated byte has its bit set in the region's
\* dirty bitmap.
C5_DirtyUpperBound ==
    [][ \A a \in XlateInputs :
          (AddrToSg(a, FALSE) /\ HasWrite(a.prot) /\ last'.ret > 0
               /\ dirty_pgsize > 0) =>
              \A i \in Live(regions, nregions) :
                  TranslatedPages(regions, sg', i, dirty_pgsize)
                      \subseteq regions'[i].bitmap
      ]_vars

\* C6: for an SG list produced by addr_to_sg on the current table, lists that
\* name one region several times included, a successful map_sg followed by
\* unmap_sg over the same list and count returns every region's refcount to
\* its value before the map_sg.
C6_MapUnmapBalanced ==
    (last.op = "unmap_sg" /\ last.bal) =>
        /\ Refcnts(regions) = map_pre
        /\ ~ub

\* map_sg and then unmap_sg have run over a list that names one region
\* twice, and the counts the map raised are back where they were.
C6_Witness ==
    /\ last.op = "unmap_sg"
    /\ last.bal
    /\ Len(sg) = 2
    /\ sg[1].region = sg[2].region
    /\ \E i \in Live(regions, nregions) : regions[i].refcnt > 0

\* C7: in every reachable state, after any sequence of map_sg and unmap_sg
\* calls (unmap_sg without a map_sg before it, or repeated, included) every
\* region's refcount is >= 0.
C7_RefcntNonNegative ==
    \A i \in Live(regions, nregions) : regions[i].refcnt >= 0

\* C8: an unmap_sg over entries whose region_base is the base of no installed
\* region skips them: no installed region's refcount changes and no table
\* slot at index >= nregions is read or written.
C8_UnmapSkipsUnknown ==
    [][ (/\ UnmapSg
         /\ \A k \in 1 .. Len(sg) : \A i \in Live(regions, nregions) :
               regions[i].base # sg[k].dma_addr) =>
            /\ \A i \in Live(regions, nregions) :
                  regions'[i].refcnt = regions[i].refcnt
            /\ \A i \in Slots : i >= nregions => regions'[i] = regions[i]
            /\ ~ub'
      ]_vars

\* What a caller sees of a translation: return value, SG entries, bitmaps.
Seen(r) == <<r.ret, r.sg, r.regions, r.ub>>

\* C9: for the same controller state and the same arguments, addr_to_sg
\* returns the same value, the same SG entries and the same dirty-bitmap
\* effect whatever the region hint holds (a valid index, a stale one, or one
\* >= nregions).
C9_HintIndependent ==
    \A a \in XlateInputs : \A h \in Slots :
        Seen(dma_addr_to_sg(Dma, h, a.addr, a.len, a.max_sg, a.prot))
            = Seen(dma_addr_to_sg(Dma, region_hint, a.addr, a.len, a.max_sg,
                                  a.prot))

\* C10: when [dma_addr, dma_addr+len) is fully covered by adjacent regions
\* and needs more SG entries than max_sg, addr_to_sg returns -(needed+1); a
\* positive count is never above max_sg.
C10_SgOverflow ==
    [][ \A a \in XlateInputs :
          AddrToSg(a, FALSE) =>
              LET walk == SplitWalk(Dma, a.addr, a.len)
                  needed == Len(walk.chunks)
              IN  /\ (walk.ok /\ needed > a.max_sg) =>
                         last'.ret = -(needed + 1)
                  /\ last'.ret > 0 => last'.ret <= a.max_sg
      ]_vars

\* [addr, addr+size) and the region's interval have a byte in common.
SharesByte(addr, size, region) ==
    \E x \in addr .. (addr + size - 1) :
        region.base <= x /\ x < region.base + region.len

C12_Unmappable ==
    [][ /\ \A a \in XlateSmall :
              (AddrToSg(a, FALSE) /\ last'.ret > 0) =>
                  \A k \in 1 .. Len(sg') :
                      sg'[k].mappable = (regions[sg'[k].region].vaddr # NULL)
        /\ MapSg =>
              /\ \A i \in Live(regions, nregions) :
                    regions[i].vaddr = NULL =>
                        regions'[i].refcnt = regions[i].refcnt
              /\ (/\ sg[1].region \in Live(regions, nregions)
                  /\ regions[sg[1].region].vaddr = NULL) =>
                     /\ last'.ret = -EFAULT
                     /\ regions' = regions
      ]_vars

\* map_sg has just refused, with -EFAULT, the entry that a translation over
\* the unmappable region produced; the region's refcount is still 0.
C12_Witness ==
    /\ last.op = "map_sg"
    /\ last.ret = -EFAULT
    /\ sg_fresh
    /\ sg # <<>>
    /\ ~sg[1].mappable
    /\ sg[1].region \in Live(regions, nregions)
    /\ regions[sg[1].region].vaddr = NULL
    /\ regions[sg[1].region].refcnt = 0

\* How many entries of sgl name region i.
Naming(sgl, i) == Cardinality({k \in 1 .. Len(sgl) : sgl[k].region = i})

C14_SecondSnapshot ==
    [][ \A g \in GetInputs :
          (DirtyPageGet(g) /\ last'.ret = 0) =>
              \A i \in Live(regions, nregions) :
                  (ExactMatch(regions[i], g.addr, g.len) /\ written[i].got)
                      => last'.data \subseteq written[i].pages
      ]_vars

\* C15: every entry a successful translation emits lies inside its region,
\* 0 <= offset < region.len and offset + length <= region.len, whatever
\* dma_addr and len are; a span whose end dma_addr + len lies past the top
\* of the address space is not translated.
C15_SgInsideRegion ==
    [][ \A a \in XlateInputs :
          (AddrToSg(a, FALSE) /\ last'.ret > 0) =>
              /\ a.addr + a.len <= AddrMod
              /\ \A k \in 1 .. Len(sg') :
                    /\ 0 <= sg'[k].offset
                    /\ sg'[k].offset < regions[sg'[k].region].len
                    /\ sg'[k].offset + sg'[k].length
                           <= regions[sg'[k].region].len
      ]_vars

\* The bits start .. end of an entry: start = offset / p and
\* end = (offset + length - 1) / p.
MarkBits(s, p) == (s.offset \div p) .. ((s.offset + s.length - 1) \div p)

\* C16: a successful write-intent translation while logging is active sets,
\* in the bitmap of each region, exactly the bits start .. end of its entries
\* in that region (offset relative to the region's base, whatever the base
\* is), changes no other bit, and touches no index at or above
\* ceil(region.len / p).
C16_ExactBits ==
    [][ \A a \in XlateDirty :
          (AddrToSg(a, FALSE) /\ HasWrite(a.prot) /\ last'.ret > 0
               /\ dirty_pgsize > 0) =>
              /\ ~ub'
              /\ \A i \in Live(regions, nregions) :
                    /\ regions'[i].bitmap = regions[i].bitmap \cup
                          UNION {MarkBits(sg'[k], dirty_pgsize) :
                                   k \in {n \in 1 .. Len(sg') :
                                            sg'[n].region = i}}
                    /\ \A b \in regions'[i].bitmap :
                          b * dirty_pgsize < regions[i].len
      ]_vars

Refused(k) ==
    \/ sg[k].region >= nregions
    \/ regions[sg[k].region].vaddr = NULL

\* C18: when map_sg fails at entry k (-EINVAL for a region index that is not
\* below nregions, -EFAULT for a region without a host mapping), the
\* refcounts have risen once for each of the entries before k and for
\* nothing else; map_sg fails exactly when the list holds such an entry.
C18_MapPartial ==
    [][ MapSg =>
          /\ last'.ret < 0 <=> \E k \in 1 .. Len(sg) : Refused(k)
          /\ \A k \in 1 .. Len(sg) :
                (Refused(k) /\ \A j \in 1 .. (k - 1) : ~Refused(j)) =>
                    /\ last'.ret = IF sg[k].region >= nregions
                                   THEN -EINVAL ELSE -EFAULT
                    /\ \A i \in Slots :
                          regions'[i].refcnt = regions[i].refcnt
                              + Naming(SubSeq(sg, 1, k - 1), i)
      ]_vars

\* map_sg has just failed at the second entry of a list, whose region has no
\* host mapping; the region of the first entry has the count it got from
\* the first entry.
C18_Witness ==
    /\ last.op = "map_sg"
    /\ last.ret = -EFAULT
    /\ Len(sg) = 2
    /\ sg[1].region \in Live(regions, nregions)
    /\ regions[sg[1].region].vaddr # NULL
    /\ regions[sg[1].region].refcnt = 1
    /\ sg[2].region \in Live(regions, nregions)
    /\ regions[sg[2].region].vaddr = NULL
    /\ regions[sg[2].region].refcnt = 0


\* C19: a translation that fails (protection violation, bad address, or too
\* few entries in the caller's list) leaves every region's dirty bitmap as it
\* was.
C19_FailedMarksNothing ==
    [][ \A a \in XlateDirty :
          (AddrToSg(a, FALSE) /\ last'.ret < 0) =>
              \A i \in Slots :
                  regions'[i].bitmap = regions[i].bitmap
      ]_vars


\* C20: every turn of the loop of pci_config_space_access whose handler
\* (standard header, capability, or region callback) returns no error takes
\* at least one byte, the next segment starts where this one ended, and the
\* bytes that remain become fewer, so that the loop ends; when it ends
\* without an error the call returns the count it was given.
C20_ConfigProgress ==
    [][ /\ (ConfigSegment /\ pci'.ret >= 0) =>
              /\ pci'.ret >= 1
              /\ pci'.offset = pci.offset + pci'.ret
              /\ pci'.count < pci.count
        /\ ConfigReturn => pci'.ret = pci.asked
      ]_vars


\* C23: a successful translation that took the slow path leaves the region
\* hint at the region of the last SG entry it emitted; a translation that
\* took the fast path, and one that failed, leave the hint as it was.
C23_HintLast ==
    [][ \A a \in XlateInputs :
          AddrToSg(a, FALSE) =>
              IF /\ ~FastPath(Dma, region_hint, a.addr, a.len, a.max_sg)
                 /\ last'.ret > 0
              THEN region_hint' = sg'[Len(sg')].region
              ELSE region_hint' = region_hint
      ]_vars


\* The six enable bits that the command value v asks for.
CmdBits(v) ==
    [iose |-> Bit(v, PCI_COMMAND_IO), mse |-> Bit(v, PCI_COMMAND_MEMORY),
     bme |-> Bit(v, PCI_COMMAND_MASTER), see |-> Bit(v, PCI_COMMAND_SERR),
     id |-> Bit(v, PCI_COMMAND_INTX_DISABLE),
     mwie |-> Bit(v, PCI_COMMAND_INVALIDATE)]

\* C21: a write to the command register that is rejected with -EINVAL (a
\* size other than 2, or a value with a flag that is not known) leaves the
\* enable bits iose, mse, bme, see, id and mwie as they were; an accepted
\* write sets each of the six to its bit of the written value.
C21_CommandWrite ==
    [][ \A a \in HdrInputs :
          (HdrWrite(a) /\ a.offset = PCI_COMMAND) =>
              IF pci'.hdr.ret = -EINVAL
              THEN pci'.hdr.cmd = pci.hdr.cmd
              ELSE pci'.hdr.ret = 0 /\ pci'.hdr.cmd = CmdBits(a.v)
      ]_vars


\* The mask of the address bits of BAR n: memory or I/O.
BarMask(n) ==
    IF pci.reg_info[n].mem THEN PCI_BASE_ADDRESS_MEM_MASK
                           ELSE PCI_BASE_ADDRESS_IO_MASK

\* C22: a write to BAR n leaves the BAR's bits outside the address mask as
\* they were, whatever the value; it leaves the whole BAR as it was when the
\* region has size 0; and the write of all ones to a BAR of size s stores
\* ~s + 1 in the address bits.
C22_BarWrite ==
    [][ \A a \in HdrInputs :
          (HdrWrite(a) /\ a.offset \in Bars) =>
              /\ BitAnd(pci'.hdr.bars[BAR_INDEX(a.offset)],
                        BitNot(BarMask(BAR_INDEX(a.offset))))
                    = BitAnd(pci.hdr.bars[BAR_INDEX(a.offset)],
                             BitNot(BarMask(BAR_INDEX(a.offset))))
              /\ pci.reg_info[BAR_INDEX(a.offset)].size = 0 =>
                    pci'.hdr.bars = pci.hdr.bars
              /\ (a.v = RegMod - 1
                     /\ pci.reg_info[BAR_INDEX(a.offset)].size > 0) =>
                    BitAnd(pci'.hdr.bars[BAR_INDEX(a.offset)],
                           BarMask(BAR_INDEX(a.offset)))
                        = BitAnd((BitNot(pci.reg_info[BAR_INDEX(a.offset)]
                                             .size) + 1) % RegMod,
                                 BarMask(BAR_INDEX(a.offset)))
      ]_vars

====
